---- MODULE Spec2Model ----
(***************************************************************************)
(* Foodiefy restaurant recommender (restaurant_recommender.py).            *)
(*                                                                         *)
(* The script is a Streamlit page: it runs top to bottom once when the     *)
(* page opens and once more after every widget interaction.  The model     *)
(* follows the first run step by step (load_data, load_models, feature     *)
(* building, rendering of the controls) and every later run as one action  *)
(* (a selector change, or a press of "Find Restaurants").                  *)
(*                                                                         *)
(* Text is a sequence of one-character strings.  Row positions are         *)
(* 1-based here: position i of the model is pandas position i-1.           *)
(***************************************************************************)
EXTENDS Naturals, Sequences, FiniteSets

VARIABLES
    dataFile,           \* the CSV file exists on disk
    csv,                \* rows of the CSV file (<<>> when it is absent)
    vecFile,            \* models/tfidf_vectorizer.pkl exists
    knnFile,            \* models/knn_recommender_model.pkl exists
    pc,                 \* position of the first script run, "idle" between runs
    exc,                \* exception that ended the last run, or NoExc
    df,                 \* the module-level DataFrame: its rows
    df_columns,         \* the module-level DataFrame: its column names
    tfidf_matrix,       \* row i: vector of df row i
    localities,         \* options of the locality selector (without "Any")
    cuisines,           \* options of the cuisine selector (without "Any")
    selected_locality,
    selected_cuisine,
    button,             \* "Find Restaurants" was pressed for the last run
    filtered_df,        \* index labels of the filtered view, in view order
    query,              \* seed text handed to the vectorizer in the last run
    indices,            \* indices[0] returned by kneighbors in the last run
    cards,              \* rows rendered as recommendation cards in the last run
    log                 \* st.* elements and model calls of the last run, in order

vars == <<dataFile, csv, vecFile, knnFile, pc, exc, df, df_columns, tfidf_matrix,
          localities, cuisines, selected_locality, selected_cuisine,
          button, filtered_df, query, indices, cards, log>>

-----------------------------------------------------------------------------
(* Bounds of the model *)

\* Largest number of rows of a table drawn from the full row domain.
MaxRows == 2

\* The tables large enough to be queried have n_neighbors .. n_neighbors +
\* ExtraRows rows.
ExtraRows == 0

-----------------------------------------------------------------------------
(* Values *)

\* pandas NaN in a text cell.  It is not a text: no text holds the element "NaN".
NaN == <<"NaN">>

\* The "Any" entry both selectors put in front of their options.
Any == <<"A", "n", "y">>

\* Exceptions are records; NoExc is "no exception".
Raised(kind, arg) == [kind |-> kind, arg |-> arg]
NoExc == Raised("none", "")

\* n_neighbors of the kneighbors call.
n_neighbors == 6

\* Cell values of the input domain.
Names == {<<"x">>}
LocalityCells == {NaN, <<"K">>, <<"B">>}
CuisineCells ==
    { NaN,
      <<"a">>,
      <<"A", ",", " ", "b">>,
      <<"b", "a">>,
      <<"b", "$">> }

MkRow(n, c, l) == [Restaurant_Name |-> n, Cuisines |-> c, Locality |-> l]

RowDomain ==
    { MkRow(n, c, l) : n \in Names, c \in CuisineCells, l \in LocalityCells }

SeqsOf(S, lo, hi) == UNION { [1..n -> S] : n \in lo..hi }

\* Eight pairwise different rows for the tables large enough to be queried.
BaseRow(i) ==
    LET k == (i - 1) % 8
    IN  MkRow(IF k % 2 = 0 THEN <<"x">> ELSE <<"y">>,
              IF (k \div 2) % 2 = 0 THEN <<"A", ",", " ", "b">> ELSE <<"b", "$">>,
              IF (k \div 4) % 2 = 0 THEN <<"K">> ELSE <<"B">>)

\* Tables of n rows in which row i is base row i or a second copy of base
\* row i-1: tables without equal rows and tables with pairs of equal rows.
KnnTablesOf(n) ==
    { [i \in 1..n |-> IF i \in D THEN BaseRow(i - 1) ELSE BaseRow(i)] :
        D \in SUBSET (2..n) }

KnnTables ==
    UNION { KnnTablesOf(n) : n \in n_neighbors..(n_neighbors + ExtraRows) }

Tables == SeqsOf(RowDomain, 1, MaxRows) \cup KnnTables

CsvColumns == {"Restaurant_Name", "Cuisines", "Locality"}

-----------------------------------------------------------------------------
(* Text operations *)

\* str.lower() on the characters of the model's alphabet.
Lower(c) ==
    CASE c = "A" -> "a"
      [] c = "B" -> "b"
      [] c = "K" -> "k"
      [] OTHER -> c

RECURSIVE StartsWith(_, _, _)
\* s[i..] starts with p, compared exactly.
StartsWith(s, p, i) ==
    IF p = <<>> THEN TRUE
    ELSE /\ i <= Len(s)
         /\ s[i] = Head(p)
         /\ StartsWith(s, Tail(p), i + 1)

RECURSIVE SplitFrom(_, _, _, _)
\* str.split(sep) of s[i..], cur being the piece read so far.
SplitFrom(s, sep, i, cur) ==
    IF i > Len(s) THEN <<cur>>
    ELSE IF StartsWith(s, sep, i)
         THEN <<cur>> \o SplitFrom(s, sep, i + Len(sep), <<>>)
         ELSE SplitFrom(s, sep, i + 1, Append(cur, s[i]))

Split(s, sep) == SplitFrom(s, sep, 1, <<>>)

RECURSIVE JoinFrom(_, _, _)
\* sep.join(parts[i..])
JoinFrom(parts, sep, i) ==
    IF i > Len(parts) THEN <<>>
    ELSE IF i = Len(parts) THEN parts[i]
    ELSE parts[i] \o sep \o JoinFrom(parts, sep, i + 1)

Join(parts, sep) == JoinFrom(parts, sep, 1)

Range(s) == { s[i] : i \in DOMAIN s }

RECURSIVE MatchAt(_, _, _)
\* re.match of pattern p at position i of s under re.IGNORECASE, for the
\* patterns the model's alphabet can spell: "$" is the end-of-string anchor,
\* every other character is a literal.
MatchAt(p, s, i) ==
    IF p = <<>> THEN TRUE
    ELSE IF Head(p) = "$"
         THEN i = Len(s) + 1 /\ MatchAt(Tail(p), s, i)
         ELSE /\ i <= Len(s)
              /\ Lower(s[i]) = Lower(Head(p))
              /\ MatchAt(Tail(p), s, i + 1)

\* re.search(p, s, re.IGNORECASE)
re_search(p, s) == \E i \in 1..(Len(s) + 1) : MatchAt(p, s, i)

\* Series.str.contains(pat, case=False, na=False) on one cell: regex=True is
\* the default, so pat is a regular expression.
str_contains(cell, pat) ==
    IF cell = NaN THEN FALSE ELSE re_search(pat, cell)

\* Series == value on one cell: NaN equals nothing.
cell_eq(cell, value) ==
    IF cell = NaN THEN FALSE ELSE cell = value

-----------------------------------------------------------------------------
(* The two model artifacts *)

IsWordChar(c) == c \notin {" ", ",", "$"}

RECURSIVE WordsFrom(_, _, _)
\* The lower-cased words of doc[i..]: maximal runs of word characters.
WordsFrom(doc, i, cur) ==
    IF i > Len(doc)
    THEN IF cur = <<>> THEN {} ELSE {cur}
    ELSE IF IsWordChar(doc[i])
         THEN WordsFrom(doc, i + 1, Append(cur, Lower(doc[i])))
         ELSE (IF cur = <<>> THEN {} ELSE {cur}) \cup WordsFrom(doc, i + 1, <<>>)

\* vectorizer.transform on one document: the vector is determined by the
\* document's lower-cased words (a bag-of-words weighting; word order, case
\* and punctuation are lost).
Transform(doc) == WordsFrom(doc, 1, <<>>)

\* The weight the vectorizer gives a word: every word has its own.
Weight(w) ==
    CASE w = <<"x">> -> 1
      [] w = <<"y">> -> 2
      [] w = <<"a">> -> 4
      [] w = <<"b">> -> 8
      [] w = <<"k">> -> 16
      [] OTHER -> 32

RECURSIVE SumWeights(_)
SumWeights(ws) ==
    IF ws = {} THEN 0
    ELSE LET w == CHOOSE e \in ws : TRUE
         IN  Weight(w) + SumWeights(ws \ {w})

\* The index's distance between two vectors: the weight of the words one has
\* and the other has not, so 0 exactly for equal vectors.
Distance(u, v) == SumWeights((u \ v) \cup (v \ u))

RECURSIVE Nearest(_, _, _, _)
\* The sequences of k distinct positions out of `left`, nearest to qv first;
\* positions at equal distance come in any order.
Nearest(qv, matrix, left, k) ==
    IF k = 0 THEN {<<>>}
    ELSE UNION { { <<i>> \o rest : rest \in Nearest(qv, matrix, left \ {i}, k - 1) } :
                 i \in { j \in left :
                           \A m \in left :
                              Distance(qv, matrix[j]) <= Distance(qv, matrix[m]) } }

\* knn_model.kneighbors(query_vec, n_neighbors=k): the index holds the rows of
\* the Text Feature Matrix.  More neighbours than fitted rows is a ValueError.
kneighbors_raises(matrix, k) == Len(matrix) < k

kneighbors(qv, matrix, k) ==
    IF kneighbors_raises(matrix, k) THEN {<<>>}
    ELSE Nearest(qv, matrix, DOMAIN matrix, k)

-----------------------------------------------------------------------------
(* The script, section by section *)

\* load_data() letting the missing file surface as an exception.
load_data_raising(exists, file) ==
    IF ~exists
    THEN [rows |-> <<>>, columns |-> {}, shown |-> <<>>,
          exc |-> Raised("FileNotFoundError", "data_path")]
    ELSE [rows |-> file, columns |-> CsvColumns, shown |-> <<>>, exc |-> NoExc]

\* load_data(): the rows and columns of the frame it returns, and what it
\* shows.  It raises nothing.
load_data(exists, file) ==
    IF ~exists
    THEN [rows |-> <<>>, columns |-> {}, shown |-> <<"st.error">>, exc |-> NoExc]
    ELSE [rows |-> file, columns |-> CsvColumns, shown |-> <<>>, exc |-> NoExc]

\* load_models() without the check of the index file.
load_models_unchecked_knn(vec, knn) ==
    IF ~vec THEN Raised("FileNotFoundError", "vectorizer_path") ELSE NoExc

\* load_models(): the exception it raises, NoExc when both files exist.
load_models(vec, knn) ==
    IF ~vec THEN Raised("FileNotFoundError", "vectorizer_path")
    ELSE IF ~knn THEN Raised("FileNotFoundError", "knn_model_path")
    ELSE NoExc

\* Restaurant_Name + " " + Cuisines + " " + Locality on one row: NaN if any
\* of the three is NaN.
combined_text(r) ==
    IF r.Cuisines = NaN \/ r.Locality = NaN \/ r.Restaurant_Name = NaN
    THEN NaN
    ELSE r.Restaurant_Name \o <<" ">> \o r.Cuisines \o <<" ">> \o r.Locality

\* df["combined_text"] = ... : a KeyError on a frame without the columns.
combined_raises(columns) ==
    IF "Restaurant_Name" \notin columns THEN Raised("KeyError", "Restaurant_Name")
    ELSE NoExc

add_combined_text(rows) ==
    [i \in DOMAIN rows |->
        [Restaurant_Name |-> rows[i].Restaurant_Name,
         Cuisines        |-> rows[i].Cuisines,
         Locality        |-> rows[i].Locality,
         combined_text   |-> combined_text(rows[i])]]

\* vectorizer.transform(df["combined_text"]): a NaN entry is not a document,
\* the vectorizer raises on it.
transform_raises(rows) ==
    IF \E i \in DOMAIN rows : rows[i].combined_text = NaN
    THEN Raised("ValueError", "np.nan is an invalid document")
    ELSE NoExc

transform_column(rows) ==
    [i \in DOMAIN rows |-> Transform(rows[i].combined_text)]

\* sorted(df["Locality"].dropna().unique()), as a set.
locality_options(rows) ==
    { rows[i].Locality : i \in { j \in DOMAIN rows : rows[j].Locality # NaN } }

\* sorted(set(", ".join(df["Cuisines"].dropna()).split(", "))), as a set.
cuisine_options(rows) ==
    LET kept == SelectSeq([i \in DOMAIN rows |-> rows[i].Cuisines],
                          LAMBDA c : c # NaN)
    IN  Range(Split(Join(kept, <<",", " ">>), <<",", " ">>))

PageHeader == <<"style", "title", "typewriter", "rule">>
Sidebar == <<"sidebar.header", "selectbox", "selectbox", "button">>
Footer == <<"rule", "footer">>

\* filtered_df = df.copy(): a new frame over all rows, named by index label.
copy(rows) == [i \in DOMAIN rows |-> i]

\* if selected_locality != "Any": keep the rows whose Locality equals it.
filter_locality(rows, view, sl) ==
    IF sl # Any
    THEN SelectSeq(view, LAMBDA i : cell_eq(rows[i].Locality, sl))
    ELSE view

\* if selected_cuisine != "Any": keep the rows whose Cuisines contains it.
filter_cuisine(rows, view, sc) ==
    IF sc # Any
    THEN SelectSeq(view, LAMBDA i : str_contains(rows[i].Cuisines, sc))
    ELSE view

\* The filtered view of the button handler.
filter(rows, sl, sc) ==
    filter_cuisine(rows, filter_locality(rows, copy(rows), sl), sc)

\* The emptiness test never taken.
filtered_never_empty(view) == FALSE

\* filtered_df.empty
filtered_empty(view) == view = <<>>

\* The handler filtering the module-level frame itself.
df_filtered_in_place(rows, view) == [j \in DOMAIN view |-> rows[view[j]]]

\* The handler rebinds filtered_df only: the module-level df keeps its rows.
df_after_filter(rows, view) == rows

\* filtered_df.iloc[0]["combined_text"]
seed_text(rows, view) == rows[view[1]].combined_text

\* indices[0][1:]
skip_first(ind) == Tail(ind)

\* r = filtered_df.iloc[i], positions past the end of the view clamped.
recommended_from_view(rows, view, i) ==
    rows[view[IF i <= Len(view) THEN i ELSE Len(view)]]

\* r = df.iloc[i]
recommended_row(rows, view, i) == rows[i]

\* The neighbour lists kneighbors may return to the handler; <<>> where the
\* handler does not reach the call or the call raises.
handler_neighbors(rows, matrix, view) ==
    IF filtered_empty(view) \/ view = <<>> THEN {<<>>}
    ELSE kneighbors(Transform(seed_text(rows, view)), matrix, n_neighbors)

\* Lines 79-115 with the button pressed, kneighbors returning ind.
button_handler(rows, matrix, view, ind) ==
    IF filtered_empty(view)
    THEN [query |-> <<>>, indices |-> <<>>, cards |-> <<>>, exc |-> NoExc,
          log |-> <<"spinner", "st.warning">>]
    ELSE IF view = <<>>
    THEN [query |-> <<>>, indices |-> <<>>, cards |-> <<>>,
          exc |-> Raised("IndexError", "iloc[0]"),
          log |-> <<"spinner", "st.success">>]
    ELSE IF kneighbors_raises(matrix, n_neighbors)
    THEN [query |-> seed_text(rows, view), indices |-> <<>>, cards |-> <<>>,
          exc |-> Raised("ValueError", "n_neighbors > n_samples_fit"),
          log |-> <<"spinner", "st.success", "vectorizer.transform",
                    "knn_model.kneighbors">>]
    ELSE LET shown == skip_first(ind)
         IN  [query |-> seed_text(rows, view), indices |-> ind,
              cards |-> [j \in DOMAIN shown |-> recommended_row(rows, view, shown[j])],
              exc |-> NoExc,
              log |-> <<"spinner", "st.success", "vectorizer.transform",
                        "knn_model.kneighbors", "heading">>
                      \o [j \in DOMAIN shown |-> "card"]]

-----------------------------------------------------------------------------
(* The state machine *)

Init ==
    /\ dataFile \in BOOLEAN
    /\ csv \in (IF dataFile THEN Tables ELSE {<<>>})
    /\ vecFile \in BOOLEAN
    /\ knnFile \in BOOLEAN
    /\ pc = "load_data"
    /\ exc = NoExc
    /\ df = <<>>
    /\ df_columns = {}
    /\ tfidf_matrix = <<>>
    /\ localities = {}
    /\ cuisines = {}
    /\ selected_locality = Any
    /\ selected_cuisine = Any
    /\ button = FALSE
    /\ filtered_df = <<>>
    /\ query = <<>>
    /\ indices = <<>>
    /\ cards = <<>>
    /\ log = <<>>

files == <<dataFile, csv, vecFile, knnFile>>
widgets == <<localities, cuisines, selected_locality, selected_cuisine, button>>
handler_locals == <<filtered_df, query, indices, cards>>

\* Line 49: df = load_data()
LoadData ==
    /\ pc = "load_data"
    /\ LET r == load_data(dataFile, csv)
       IN  /\ df' = r.rows
           /\ df_columns' = r.columns
           /\ log' = log \o r.shown
           /\ exc' = r.exc
    /\ pc' = IF load_data(dataFile, csv).exc = NoExc THEN "load_models" ELSE "crashed"
    /\ UNCHANGED <<files, tfidf_matrix, widgets, handler_locals>>

\* Line 50: vectorizer, knn_model = load_models()
LoadModels ==
    /\ pc = "load_models"
    /\ exc' = load_models(vecFile, knnFile)
    /\ pc' = IF exc' = NoExc THEN "features" ELSE "crashed"
    /\ UNCHANGED <<files, df, df_columns, tfidf_matrix, widgets, handler_locals, log>>

\* Lines 52-53: the combined_text column and the Text Feature Matrix
BuildFeatures ==
    /\ pc = "features"
    /\ IF combined_raises(df_columns) # NoExc
       THEN /\ exc' = combined_raises(df_columns)
            /\ pc' = "crashed"
            /\ UNCHANGED <<df, df_columns, tfidf_matrix>>
       ELSE LET d == add_combined_text(df)
            IN  /\ df' = d
                /\ df_columns' = df_columns \cup {"combined_text"}
                /\ exc' = transform_raises(d)
                /\ IF transform_raises(d) # NoExc
                   THEN pc' = "crashed" /\ UNCHANGED tfidf_matrix
                   ELSE pc' = "render" /\ tfidf_matrix' = transform_column(d)
    /\ UNCHANGED <<files, widgets, handler_locals, log>>

\* Lines 65-117 of the first run: the page, the two selectors on "Any", the
\* button not pressed.
RenderPage ==
    /\ pc = "render"
    /\ localities' = locality_options(df)
    /\ cuisines' = cuisine_options(df)
    /\ selected_locality' = Any
    /\ selected_cuisine' = Any
    /\ button' = FALSE
    /\ log' = log \o PageHeader \o Sidebar \o <<"st.info">> \o Footer
    /\ pc' = "idle"
    /\ UNCHANGED <<files, exc, df, df_columns, tfidf_matrix, handler_locals>>

\* A run of the whole script after the first one, with the selectors on sl and
\* sc: lines 49-53 rebuild the frame and the matrix from the same files, then
\* the page is rendered and, if the button was pressed, the handler runs with
\* kneighbors returning ind.
Rerun(sl, sc, pressed, ind) ==
    LET loaded == load_data(dataFile, csv)
        d == add_combined_text(loaded.rows)
        matrix == transform_column(d)
        view == filter(d, sl, sc)
        h == button_handler(d, matrix, view, ind)
    IN  /\ df_columns' = loaded.columns \cup {"combined_text"}
        /\ tfidf_matrix' = matrix
        /\ localities' = locality_options(d)
        /\ cuisines' = cuisine_options(d)
        /\ selected_locality' = sl
        /\ selected_cuisine' = sc
        /\ button' = pressed
        /\ IF pressed
           THEN /\ df' = df_after_filter(d, view)
                /\ filtered_df' = view
                /\ query' = h.query
                /\ indices' = h.indices
                /\ cards' = h.cards
                /\ exc' = h.exc
                /\ log' = loaded.shown \o PageHeader \o Sidebar \o h.log
                            \o (IF h.exc = NoExc THEN Footer ELSE <<>>)
           ELSE /\ df' = d
                /\ filtered_df' = <<>>
                /\ query' = <<>>
                /\ indices' = <<>>
                /\ cards' = <<>>
                /\ exc' = NoExc
                /\ log' = loaded.shown \o PageHeader \o Sidebar \o <<"st.info">> \o Footer
        /\ UNCHANGED <<files, pc>>

\* The user picks another locality: a run with the button not pressed.
SelectLocality(l) ==
    /\ pc = "idle"
    /\ l \in {Any} \cup localities
    /\ l # selected_locality
    /\ Rerun(l, selected_cuisine, FALSE, <<>>)

\* The user picks another cuisine: a run with the button not pressed.
SelectCuisine(c) ==
    /\ pc = "idle"
    /\ c \in {Any} \cup cuisines
    /\ c # selected_cuisine
    /\ Rerun(selected_locality, c, FALSE, <<>>)

\* The user presses "Find Restaurants": a run with the button pressed.
FindRestaurants ==
    /\ pc = "idle"
    /\ \E ind \in handler_neighbors(df, tfidf_matrix,
                                    filter(df, selected_locality, selected_cuisine)) :
          Rerun(selected_locality, selected_cuisine, TRUE, ind)

Next ==
    \/ LoadData
    \/ LoadModels
    \/ BuildFeatures
    \/ RenderPage
    \/ \E l \in {Any} \cup localities : SelectLocality(l)
    \/ \E c \in {Any} \cup cuisines : SelectCuisine(c)
    \/ FindRestaurants

Spec == Init /\ [][Next]_vars

-----------------------------------------------------------------------------
(* Vocabulary of the properties *)

\* The last run was a press of "Find Restaurants".
Pressed == pc = "idle" /\ button

Count(seq, e) == Cardinality({ i \in DOMAIN seq : seq[i] = e })

Before(seq, a, b) ==
    \A i \in DOMAIN seq : \A j \in DOMAIN seq :
        (seq[i] = a /\ seq[j] = b) => i < j

\* s occurs in cell as a substring, letter case ignored.
ContainsIgnoringCase(cell, s) ==
    \E i \in 1..(Len(cell) + 1) :
        /\ i + Len(s) - 1 <= Len(cell)
        /\ \A j \in 1..Len(s) : Lower(cell[i + j - 1]) = Lower(s[j])

\* Row r satisfies the criteria pair (sl, sc) as the specification words it.
Satisfies(r, sl, sc) ==
    /\ sl = Any \/ (r.Locality # NaN /\ r.Locality = sl)
    /\ sc = Any \/ (r.Cuisines # NaN /\ ContainsIgnoringCase(r.Cuisines, sc))

\* The positions of the rows satisfying (sl, sc), in table order.
SatisfyingRows(rows, sl, sc) ==
    SelectSeq([i \in DOMAIN rows |-> i], LAMBDA i : Satisfies(rows[i], sl, sc))

-----------------------------------------------------------------------------
(* Properties *)

\* C1: with the dataset file absent and both model artifacts present, no run
\* of the script ends in an exception.
C1_MissingDatasetDoesNotCrash ==
    (~dataFile /\ vecFile /\ knnFile) => (exc = NoExc /\ pc # "crashed")

\* C2: with the dataset file absent, the load_data step leaves a zero-row
\* frame, shows the error element, raises nothing and hands over to
\* load_models.
C2_LoaderRecoversFromMissingFile ==
    [][(pc = "load_data" /\ ~dataFile) =>
          (/\ pc' = "load_models"
           /\ df' = <<>>
           /\ log' = <<"st.error">>
           /\ exc' = NoExc)]_vars

C2_Witness == pc = "load_models" /\ ~dataFile /\ log = <<"st.error">>

\* A model artifact is missing and load_models has run.
ArtifactMissingAfterLoad ==
    (~vecFile \/ ~knnFile) /\ pc \notin {"load_data", "load_models"}

\* The run was aborted by a FileNotFoundError naming a path that is missing.
AbortedNamingMissingPath ==
    /\ pc = "crashed"
    /\ exc.kind = "FileNotFoundError"
    /\ exc.arg \in {"vectorizer_path", "knn_model_path"}
    /\ (exc.arg = "vectorizer_path" => ~vecFile)
    /\ (exc.arg = "knn_model_path" => ~knnFile)

\* C3 as stated: a missing model artifact aborts startup with a
\* FileNotFoundError naming the missing path, with nothing rendered before it.
C3_AbortBeforeAnyElement ==
    ArtifactMissingAfterLoad => (AbortedNamingMissingPath /\ log = <<>>)

\* C3 amended: a missing model artifact aborts startup with a
\* FileNotFoundError naming the missing path; nothing is rendered before it
\* except load_data's error element, which is there exactly when the dataset
\* file is missing too.
C3_AbortBeforePage ==
    ArtifactMissingAfterLoad =>
        (/\ AbortedNamingMissingPath
         /\ log = (IF dataFile THEN <<>> ELSE <<"st.error">>))

C3_Witness ==
    /\ ~dataFile /\ vecFile /\ ~knnFile
    /\ pc = "crashed"
    /\ exc = Raised("FileNotFoundError", "knn_model_path")

\* C4: after a press, the filtered view is exactly the rows, in table order,
\* whose locality equals the selected one (or "Any") and whose cuisines field
\* contains the selected cuisine as a case-insensitive substring (or "Any").
C4_ViewIsSatisfyingRows ==
    Pressed => filtered_df = SatisfyingRows(df, selected_locality, selected_cuisine)

\* C5: a press whose filter yields no row shows the warning, calls neither
\* vectorizer.transform nor kneighbors, and renders no recommendation.
C5_NoMatchNoQuery ==
    (Pressed /\ filter(df, selected_locality, selected_cuisine) = <<>>) =>
        (/\ Count(log, "st.warning") = 1
         /\ Count(log, "vectorizer.transform") = 0
         /\ Count(log, "knn_model.kneighbors") = 0
         /\ Count(log, "card") = 0
         /\ cards = <<>>
         /\ indices = <<>>
         /\ exc = NoExc)

C5_Witness ==
    /\ Pressed
    /\ filter(df, selected_locality, selected_cuisine) = <<>>
    /\ Count(log, "st.warning") = 1

\* C6: on a table of at least 6 rows, a press with a non-empty view gets 6
\* neighbour positions, the first being the seed row, and presents 5 rows,
\* none of them the seed row.
C6_SeedIsFirstNeighbour ==
    (Pressed /\ Len(df) >= n_neighbors /\ filtered_df # <<>>) =>
        (/\ Len(indices) = n_neighbors
         /\ indices[1] = filtered_df[1]
         /\ Len(cards) = n_neighbors - 1
         /\ \A j \in 2..Len(indices) : indices[j] # filtered_df[1])

\* C7: between runs the frame and the matrix never change, and matrix row i is
\* the transform of the combined text of frame row i.
C7_SourceUntouched ==
    /\ [](pc = "idle" =>
            (/\ Len(tfidf_matrix) = Len(df)
             /\ df = add_combined_text(csv)
             /\ \A i \in DOMAIN df :
                   tfidf_matrix[i] = Transform(df[i].combined_text)))
    /\ [][pc = "idle" => (df' = df /\ tfidf_matrix' = tfidf_matrix)]_vars

C7_Witness ==
    /\ Pressed
    /\ filtered_df # <<>>
    /\ Len(filtered_df) < Len(df)

\* C8: a press with a non-empty view issues exactly one kneighbors call, after
\* the filter's outcome is known and before any card, and its seed is the
\* combined text of the first table row satisfying both criteria.
C8_OneQuerySeededByFirstMatch ==
    (Pressed /\ filtered_df # <<>>) =>
        (/\ Count(log, "knn_model.kneighbors") = 1
         /\ Count(log, "vectorizer.transform") = 1
         /\ Before(log, "st.success", "knn_model.kneighbors")
         /\ Before(log, "vectorizer.transform", "knn_model.kneighbors")
         /\ Before(log, "knn_model.kneighbors", "card")
         /\ SatisfyingRows(df, selected_locality, selected_cuisine) # <<>>
         /\ query = df[SatisfyingRows(df, selected_locality, selected_cuisine)[1]]
                        .combined_text)

\* C9: every card shows the row of the full table at the position kneighbors
\* returned, the first position skipped.
C9_CardsFromFullTable ==
    (Pressed /\ indices # <<>>) =>
        (/\ Len(cards) = Len(indices) - 1
         /\ \A j \in DOMAIN cards : cards[j] = df[indices[j + 1]])

\* A card whose row does not satisfy the criteria that selected the seed, and
\* is not the row at that position of the filtered view.
C9_Witness ==
    /\ Pressed
    /\ \E j \in DOMAIN cards :
          /\ ~Satisfies(cards[j], selected_locality, selected_cuisine)
          /\ (indices[j + 1] > Len(filtered_df)
                \/ df[filtered_df[indices[j + 1]]] # cards[j])

\* C10: every locality option with cuisine "Any", and every cuisine option
\* with locality "Any", has a non-empty filtered view; the warning appears
\* only when both selectors are off "Any".
C10_EveryOptionMatches ==
    /\ pc = "idle" =>
          (/\ \A l \in localities : filter(df, l, Any) # <<>>
           /\ \A c \in cuisines : filter(df, Any, c) # <<>>)
    /\ (Pressed /\ Count(log, "st.warning") > 0) =>
          (selected_locality # Any /\ selected_cuisine # Any)

====
